---- MODULE Spec2Model ----
(***************************************************************************)
(* Model of apo_wrapper.py: a FastAPI service that proxies three Apollo    *)
(* CRM operations (status check, create contact, update contact) and a     *)
(* webhook that dispatches to them.  Every inbound request is a coroutine; *)
(* the coroutines interleave at their await points: the outbound HTTP call *)
(* and the closing of the httpx.AsyncClient context.                       *)
(*                                                                         *)
(* JSON values are strings.  Missing stands for a key that is absent from  *)
(* an object, Null for JSON null / Python None.                            *)
(***************************************************************************)
EXTENDS Integers, Sequences, FiniteSets, TLC

\* Number of inbound requests of a behaviour (each is one coroutine).
NumRequests == 2

Req == 1..NumRequests

Missing == "<missing>"
Null == "<null>"

\* Python truthiness of a str / None value (`if v`, `a or b`).
Truthy(v) == v \notin {Missing, Null, ""}

\* dict.get(key): the value, None when the key is absent.
Get(v) == IF v = Missing THEN Null ELSE v

\* dict.get(key, default) and a pydantic field default.
GetDefault(v, d) == IF v = Missing THEN d ELSE v

(***************************************************************************)
(* Inbound requests                                                        *)
(***************************************************************************)
NoParams ==
    [email |-> Missing, first_name |-> Missing, last_name |-> Missing,
     title |-> Missing, company |-> Missing, phone |-> Missing,
     contact_id |-> Missing, linkedin_url |-> Missing]

\* JSON bodies sent to POST /api/create-contact (keys the schema does not
\* declare are ignored by it and are left out here).
CreateParams ==
    [email : {Missing, "", "j@x.com"}, first_name : {Missing, "Jane"},
     last_name : {Missing}, title : {Missing, "CTO"},
     company : {Missing, "", "Acme"}, phone : {Missing, "555"},
     contact_id : {Missing}, linkedin_url : {Missing}]

\* JSON bodies sent to PUT /api/update-contact.
UpdateParams ==
    [email : {Missing, "", "new@x.com"}, first_name : {Missing},
     last_name : {Missing}, title : {Missing, "CTO"},
     company : {Missing}, phone : {Missing, Null, "555"},
     contact_id : {Missing, "c1"}, linkedin_url : {Missing, "in/jane"}]

PhoneOnly == [NoParams EXCEPT !.contact_id = "c1", !.phone = "555"]
NoFields == [NoParams EXCEPT !.contact_id = "c1"]
JaneDoe == [NoParams EXCEPT !.email = "j@x.com", !.first_name = "Jane"]

NoRequest == [endpoint |-> "none", action |-> Missing, params |-> NoParams]

\* Every inbound request of the model: the three endpoints and the webhook
\* with each action (absent, unrecognised and the three recognised ones).
AllInputs ==
    [endpoint : {"status"}, action : {Missing}, params : {NoParams}]
    \cup [endpoint : {"create"}, action : {Missing}, params : CreateParams]
    \cup [endpoint : {"update"}, action : {Missing}, params : UpdateParams]
    \cup [endpoint : {"webhook"}, action : {"create_contact"}, params : CreateParams]
    \cup [endpoint : {"webhook"}, action : {"update_contact"}, params : UpdateParams]
    \cup [endpoint : {"webhook"}, action : {"status", Missing, "frobnicate"},
          params : {NoParams, JaneDoe, PhoneOnly}]

\* The requests of the concurrent specification: one or two per code path.
CoreInputs ==
    [endpoint : {"status"}, action : {Missing}, params : {NoParams}]
    \cup [endpoint : {"create"}, action : {Missing}, params : {JaneDoe}]
    \cup [endpoint : {"update"}, action : {Missing}, params : {PhoneOnly, NoFields}]
    \cup [endpoint : {"webhook"}, action : {"status"}, params : {NoParams}]
    \cup [endpoint : {"webhook"}, action : {"frobnicate"}, params : {PhoneOnly}]
    \cup [endpoint : {"webhook"}, action : {Missing}, params : {NoParams}]

(***************************************************************************)
(* The remote API: outcomes of one outbound call                           *)
(***************************************************************************)
NoContact ==
    [kind |-> "missing", id |-> Missing, name |-> Missing, email |-> Missing,
     title |-> Missing, organization_name |-> Missing,
     account |-> "missing", account_name |-> Missing]

\* The JSON object {}: what data.get("contact", {}) yields without the key.
EmptyContact == [NoContact EXCEPT !.kind = "object"]

Contacts ==
    [kind : {"object"}, id : {"123"}, name : {"Jane Doe"}, email : {"j@x.com"},
     title : {Missing, "CTO"}, organization_name : {Missing, "", "Org Inc"},
     account : {"missing", "null"}, account_name : {Missing}]
    \cup [kind : {"object"}, id : {"123"}, name : {"Jane Doe"}, email : {"j@x.com"},
          title : {Missing, "CTO"}, organization_name : {Missing, "", "Org Inc"},
          account : {"object"}, account_name : {Missing, "Acme"}]
    \cup {EmptyContact, [NoContact EXCEPT !.kind = "null"]}

JaneContact ==
    [kind |-> "object", id |-> "123", name |-> "Jane Doe", email |-> "j@x.com",
     title |-> Missing, organization_name |-> Missing,
     account |-> "missing", account_name |-> Missing]

NoBody == [kind |-> "none", text |-> "", is_logged_in |-> Missing, contact |-> NoContact]

\* A body that is not JSON, and a JSON array: response.json() raises on the
\* first and returns a list on the second.
OddBodies ==
    {[NoBody EXCEPT !.kind = "invalid", !.text = "<html>Bad Gateway</html>"],
     [NoBody EXCEPT !.kind = "array", !.text = "[]"]}

HealthBodies ==
    [kind : {"object"}, text : {"{health}"}, is_logged_in : {Missing, "true", "false"},
     contact : {NoContact}]

ContactBodies ==
    [kind : {"object"}, text : {"{contact}"}, is_logged_in : {Missing},
     contact : Contacts]

ErrorBodies ==
    {[NoBody EXCEPT !.kind = "object", !.text = "{\"error\": \"invalid email\"}"],
     [NoBody EXCEPT !.kind = "invalid", !.text = "<html>Bad Gateway</html>"]}

SuccessStatuses == {200, 201}
ErrorStatuses == {302, 422, 500}

NoReply == [kind |-> "none", desc |-> "", status |-> 0, body |-> NoBody]

AllOutcomes ==
    [kind : {"exception"}, desc : {"ConnectError", "ReadTimeout"},
     status : {0}, body : {NoBody}]
    \cup [kind : {"response"}, desc : {""}, status : SuccessStatuses,
          body : OddBodies \cup HealthBodies \cup ContactBodies]
    \cup [kind : {"response"}, desc : {""}, status : ErrorStatuses,
          body : ErrorBodies]

CoreOutcomes ==
    {[NoReply EXCEPT !.kind = "exception", !.desc = "ConnectError"],
     [NoReply EXCEPT !.kind = "response", !.status = 200,
         !.body = [kind |-> "object", text |-> "{health}", is_logged_in |-> "true",
                   contact |-> NoContact]],
     [NoReply EXCEPT !.kind = "response", !.status = 200,
         !.body = [kind |-> "object", text |-> "{contact}", is_logged_in |-> Missing,
                   contact |-> JaneContact]],
     [NoReply EXCEPT !.kind = "response", !.status = 422,
         !.body = [NoBody EXCEPT !.kind = "object",
                                 !.text = "{\"error\": \"invalid email\"}"]]}

VARIABLES
    pc,         \* where each request's coroutine stands
    req,        \* the inbound request
    client,     \* the httpx.AsyncClient the coroutine holds (0: none)
    open,       \* the client contexts that are open: [id, req]
    nextClient, \* identity of the next client object constructed
    sent,       \* the outbound calls issued for each request, in order
    reply,      \* what the awaited outbound call came back with
    resp        \* the HTTP response given to the caller

vars == <<pc, req, client, open, nextClient, sent, reply, resp>>

(***************************************************************************)
(* Values a coroutine produces: a returned value or a raised exception     *)
(***************************************************************************)
NoPayload ==
    [keys |-> {}, success |-> FALSE, contact_id |-> Missing, name |-> Missing,
     email |-> Missing, title |-> Missing, company |-> Missing,
     updated_fields |-> <<>>, raw_response |-> NoContact,
     apollo_status |-> Missing, status_code |-> 0, is_logged_in |-> Missing,
     error |-> Missing, available |-> <<>>]

Return(p) ==
    [kind |-> "return", type |-> "", status |-> 0, detail |-> "",
     data |-> NoBody, payload |-> p]

ReturnData(b) == [Return(NoPayload) EXCEPT !.data = b]

Raise(type, status, detail) ==
    [kind |-> "raise", type |-> type, status |-> status, detail |-> detail,
     data |-> NoBody, payload |-> NoPayload]

HTTPException(status, detail) == Raise("HTTPException", status, detail)

\* str(e) of the exceptions the handlers can meet.
JSONDecodeError == Raise("JSONDecodeError", 0, "Expecting value: line 1 column 1 (char 0)")
ListHasNoGet == Raise("AttributeError", 0, "'list' object has no attribute 'get'")
NoneHasNoGet == Raise("AttributeError", 0, "'NoneType' object has no attribute 'get'")

(***************************************************************************)
(* What FastAPI makes of a handler's result                                *)
(***************************************************************************)
NoResponse == [kind |-> "none", status |-> 0, detail |-> "", payload |-> NoPayload]

Respond(res) ==
    IF res.kind = "return"
    THEN [kind |-> "payload", status |-> 200, detail |-> "", payload |-> res.payload]
    ELSE IF res.type = "HTTPException"
    THEN [kind |-> "failure", status |-> res.status, detail |-> res.detail,
          payload |-> NoPayload]
    ELSE IF res.type = "RequestValidationError"
    THEN [kind |-> "failure", status |-> 422, detail |-> res.detail,
          payload |-> NoPayload]
    ELSE [kind |-> "failure", status |-> 500, detail |-> "Internal Server Error",
          payload |-> NoPayload]

(***************************************************************************)
(* Request schemas                                                         *)
(***************************************************************************)
\* CreateContactRequest: email is a required str, the rest default to "".
ValidCreate(p) == p.email \notin {Missing, Null}

CreateContactRequest(p) ==
    [email |-> p.email,
     first_name |-> GetDefault(p.first_name, ""),
     last_name |-> GetDefault(p.last_name, ""),
     title |-> GetDefault(p.title, ""),
     company |-> GetDefault(p.company, ""),
     phone |-> GetDefault(p.phone, "")]

\* UpdateContactRequest: contact_id is a required str, the rest default to None.
ValidUpdate(p) == p.contact_id \notin {Missing, Null}

UpdateContactRequest(p) ==
    [contact_id |-> p.contact_id,
     email |-> GetDefault(p.email, Null),
     title |-> GetDefault(p.title, Null),
     phone |-> GetDefault(p.phone, Null),
     linkedin_url |-> GetDefault(p.linkedin_url, Null)]

\* A body the schema refuses: FastAPI refuses it before the endpoint runs;
\* in the webhook the constructor raises inside the handler, uncaught.
SchemaFailure(endpoint) ==
    IF endpoint = "webhook"
    THEN Raise("ValidationError", 0, "Field required")
    ELSE Raise("RequestValidationError", 0, "Field required")

(***************************************************************************)
(* make_apollo_request                                                     *)
(***************************************************************************)
StatusTimeout == 10
ApolloTimeout == 30

NonEmpty(kv) == kv[2] # Null /\ kv[2] # ""
HasValue(kv) == Truthy(kv[2])
Keys(d) == [i \in 1..Len(d) |-> d[i][1]]

\* The outbound call: the query string keeps the parameters that are neither
\* None nor "" (percent-encoding is not modelled: nothing reads the URL back).
ApolloCall(method, endpoint, query_params, body_data) ==
    [method |-> method, endpoint |-> endpoint,
     query |-> SelectSeq(query_params, NonEmpty),
     body |-> body_data, timeout |-> ApolloTimeout]

IsSuccess(status) == 200 <= status /\ status <= 299

\* Variant without the `except httpx.HTTPStatusError` clause: a remote error
\* status falls to `except Exception` and leaves as a 500.
MakeApolloRequestNoStatusClause(method, o) ==
    IF method \notin {"GET", "POST", "PUT"}
    THEN HTTPException(500, "Unsupported method: " \o method)
    ELSE IF o.kind = "exception"
    THEN HTTPException(500, o.desc)
    ELSE IF ~IsSuccess(o.status)
    THEN HTTPException(500, "Apollo API error: " \o o.body.text)
    ELSE IF o.body.kind = "invalid"
    THEN HTTPException(500, JSONDecodeError.detail)
    ELSE ReturnData(o.body)

\* What the body of `async with` ends in, given what the call came back with.
MakeApolloRequest(method, o) ==
    IF method \notin {"GET", "POST", "PUT"}
    THEN HTTPException(500, "Unsupported method: " \o method)
    ELSE IF o.kind = "exception"
    THEN HTTPException(500, o.desc)
    ELSE IF ~IsSuccess(o.status)
    THEN HTTPException(o.status, "Apollo API error: " \o o.body.text)
    ELSE IF o.body.kind = "invalid"
    THEN HTTPException(500, JSONDecodeError.detail)
    ELSE ReturnData(o.body)

(***************************************************************************)
(* check_status                                                            *)
(***************************************************************************)
StatusCall ==
    [method |-> "GET", endpoint |-> "/auth/health", query |-> <<>>,
     body |-> <<>>, timeout |-> StatusTimeout]

\* Variant that takes every 2xx status for a connection.
CheckStatusBodyAny2xx(o) ==
    IF o.kind = "exception"
    THEN Raise("Exception", 0, o.desc)
    ELSE IF ~IsSuccess(o.status)
    THEN Return([NoPayload EXCEPT
                    !.keys = {"apollo_status", "status_code", "is_logged_in"},
                    !.apollo_status = "error", !.status_code = o.status,
                    !.is_logged_in = "false"])
    ELSE IF o.body.kind = "invalid" THEN JSONDecodeError
    ELSE IF o.body.kind = "array" THEN ListHasNoGet
    ELSE Return([NoPayload EXCEPT
                    !.keys = {"apollo_status", "status_code", "is_logged_in"},
                    !.apollo_status = "connected", !.status_code = o.status,
                    !.is_logged_in = GetDefault(o.body.is_logged_in, "false")])

\* What the body of `async with` ends in.
CheckStatusBody(o) ==
    IF o.kind = "exception"
    THEN Raise("Exception", 0, o.desc)
    ELSE IF o.status # 200
    THEN Return([NoPayload EXCEPT
                    !.keys = {"apollo_status", "status_code", "is_logged_in"},
                    !.apollo_status = "error", !.status_code = o.status,
                    !.is_logged_in = "false"])
    ELSE IF o.body.kind = "invalid" THEN JSONDecodeError
    ELSE IF o.body.kind = "array" THEN ListHasNoGet
    ELSE Return([NoPayload EXCEPT
                    !.keys = {"apollo_status", "status_code", "is_logged_in"},
                    !.apollo_status = "connected", !.status_code = o.status,
                    !.is_logged_in = GetDefault(o.body.is_logged_in, "false")])

\* The whole handler: `except Exception` turns any exception into a payload.
CheckStatus(o) ==
    LET res == CheckStatusBody(o) IN
    IF res.kind = "raise"
    THEN Return([NoPayload EXCEPT !.keys = {"apollo_status", "error"},
                                  !.apollo_status = "error", !.error = res.detail])
    ELSE res

(***************************************************************************)
(* create_contact                                                          *)
(***************************************************************************)
\* query_params, with the empty values removed.
CreateQueryParams(request) ==
    SelectSeq(<< <<"email", request.email>>,
                 <<"first_name", request.first_name>>,
                 <<"last_name", request.last_name>>,
                 <<"title", request.title>>,
                 <<"organization_name", request.company>>,
                 <<"direct_phone", request.phone>> >>, HasValue)

\* data.get("contact", {})
ContactOf(data) == IF data.contact.kind = "missing" THEN EmptyContact ELSE data.contact

\* contact.get("organization_name") or contact.get("account", {}).get("name")
CompanyOf(contact) ==
    IF Truthy(contact.organization_name) THEN Return([NoPayload EXCEPT !.company = contact.organization_name])
    ELSE IF contact.account = "null" THEN NoneHasNoGet
    ELSE IF contact.account = "missing" THEN Return([NoPayload EXCEPT !.company = Null])
    ELSE Return([NoPayload EXCEPT !.company = Get(contact.account_name)])

\* The try block after the call has come back with `res`.
CreateContactBody(res) ==
    IF res.kind = "raise" THEN res
    ELSE IF res.data.kind = "array" THEN ListHasNoGet
    ELSE IF ContactOf(res.data).kind = "null" THEN NoneHasNoGet
    ELSE LET contact == ContactOf(res.data)
             company == CompanyOf(contact)
         IN IF company.kind = "raise" THEN company
            ELSE Return([NoPayload EXCEPT
                    !.keys = {"success", "contact_id", "name", "email", "title",
                              "company", "raw_response"},
                    !.success = TRUE, !.contact_id = Get(contact.id),
                    !.name = Get(contact.name), !.email = Get(contact.email),
                    !.title = Get(contact.title),
                    !.company = company.payload.company,
                    !.raw_response = contact])

\* Variant without `except HTTPException: raise e`.
ExceptClausesAllTo500(res) ==
    IF res.kind = "raise" THEN HTTPException(500, res.detail) ELSE res

\* except HTTPException: raise e / except Exception: raise HTTPException(500)
ExceptClauses(res) ==
    IF res.kind = "raise" /\ res.type # "HTTPException"
    THEN HTTPException(500, res.detail)
    ELSE res

CreateContact(o) == ExceptClauses(CreateContactBody(MakeApolloRequest("POST", o)))

(***************************************************************************)
(* update_contact                                                          *)
(***************************************************************************)
\* Variant that keeps the request's name for the phone.
UpdateBodyDataPhoneKept(request) ==
    SelectSeq(<< <<"email", request.email>>,
                 <<"title", request.title>>,
                 <<"phone", request.phone>>,
                 <<"linkedin_url", request.linkedin_url>> >>, HasValue)

UpdateBodyData(request) ==
    SelectSeq(<< <<"email", request.email>>,
                 <<"title", request.title>>,
                 <<"direct_phone", request.phone>>,
                 <<"linkedin_url", request.linkedin_url>> >>, HasValue)

\* if not body_data: raise HTTPException(400), through the except clauses.
NoFieldsToUpdate == ExceptClauses(HTTPException(400, "No fields to update"))

UpdateContactBody(request, res) ==
    IF res.kind = "raise" THEN res
    ELSE IF res.data.kind = "array" THEN ListHasNoGet
    ELSE IF ContactOf(res.data).kind = "null" THEN NoneHasNoGet
    ELSE LET contact == ContactOf(res.data) IN
         Return([NoPayload EXCEPT
                    !.keys = {"success", "contact_id", "updated_fields", "raw_response"},
                    !.success = TRUE, !.contact_id = Get(contact.id),
                    !.updated_fields = Keys(UpdateBodyData(request)),
                    !.raw_response = contact])

UpdateContact(request, o) ==
    ExceptClauses(UpdateContactBody(request, MakeApolloRequest("PUT", o)))

(***************************************************************************)
(* n8n_webhook                                                             *)
(***************************************************************************)
\* Variant whose last branch serves the status check.
WebhookDispatchDefaultStatus(action) ==
    CASE action = "create_contact" -> "create"
      [] action = "update_contact" -> "update"
      [] OTHER -> "status"

WebhookDispatch(action) ==
    CASE action = "create_contact" -> "create"
      [] action = "update_contact" -> "update"
      [] action = "status" -> "status"
      [] OTHER -> "unknown"

UnknownAction ==
    Return([NoPayload EXCEPT !.keys = {"error", "available"},
                             !.error = "Unknown action",
                             !.available = <<"create_contact", "update_contact", "status">>])

\* The operation that serves an inbound request.
Operation(in) ==
    IF in.endpoint = "webhook" THEN WebhookDispatch(in.action) ELSE in.endpoint

(***************************************************************************)
(* The coroutines                                                          *)
(***************************************************************************)
Init ==
    /\ pc = [r \in Req |-> "idle"]
    /\ req = [r \in Req |-> NoRequest]
    /\ client = [r \in Req |-> 0]
    /\ open = {}
    /\ nextClient = 1
    /\ sent = [r \in Req |-> <<>>]
    /\ reply = [r \in Req |-> NoReply]
    /\ resp = [r \in Req |-> NoResponse]

\* An inbound request reaches the service.
Arrive(r, in) ==
    /\ pc[r] = "idle"
    /\ pc' = [pc EXCEPT ![r] = "received"]
    /\ req' = [req EXCEPT ![r] = in]
    /\ UNCHANGED <<client, open, nextClient, sent, reply, resp>>

\* `async with httpx.AsyncClient() as client:` then `await client.<method>(...)`.
IssueCall(r, call) ==
    /\ client' = [client EXCEPT ![r] = nextClient]
    /\ open' = open \cup {[id |-> nextClient, req |-> r]}
    /\ nextClient' = nextClient + 1
    /\ sent' = [sent EXCEPT ![r] = Append(@, call)]
    /\ pc' = [pc EXCEPT ![r] = "awaiting"]
    /\ UNCHANGED <<req, reply, resp>>

\* The handler ends without having issued a call.
Answer(r, res) ==
    /\ resp' = [resp EXCEPT ![r] = Respond(res)]
    /\ pc' = [pc EXCEPT ![r] = "done"]
    /\ UNCHANGED <<req, client, open, nextClient, sent, reply>>

StartStatus(r) ==
    /\ pc[r] = "received"
    /\ Operation(req[r]) = "status"
    /\ IssueCall(r, StatusCall)

StartCreate(r) ==
    /\ pc[r] = "received"
    /\ Operation(req[r]) = "create"
    /\ IF ~ValidCreate(req[r].params)
       THEN Answer(r, SchemaFailure(req[r].endpoint))
       ELSE IssueCall(r, ApolloCall("POST", "/contacts",
                CreateQueryParams(CreateContactRequest(req[r].params)), <<>>))

StartUpdate(r) ==
    /\ pc[r] = "received"
    /\ Operation(req[r]) = "update"
    /\ IF ~ValidUpdate(req[r].params)
       THEN Answer(r, SchemaFailure(req[r].endpoint))
       ELSE LET request == UpdateContactRequest(req[r].params)
                body_data == UpdateBodyData(request)
            IN IF body_data = <<>>
               THEN Answer(r, NoFieldsToUpdate)
               ELSE IssueCall(r, ApolloCall("PUT", "/contacts/" \o request.contact_id,
                                            <<>>, body_data))

WebhookUnknown(r) ==
    /\ pc[r] = "received"
    /\ Operation(req[r]) = "unknown"
    /\ Answer(r, UnknownAction)

\* Variant that goes back to issue the call again when it raised.
ResumeRetrying(o) == IF o.kind = "exception" THEN "received" ELSE "exiting"

\* Where the coroutine stands once the awaited call has completed: it goes on
\* to the end of the `async with` block whatever the call came back with.
Resume(o) == "exiting"

\* The awaited outbound call completes: a response or an exception.
Reply(r, o) ==
    /\ pc[r] = "awaiting"
    /\ reply' = [reply EXCEPT ![r] = o]
    /\ pc' = [pc EXCEPT ![r] = Resume(o)]
    /\ UNCHANGED <<req, client, open, nextClient, sent, resp>>

\* Variant that closes the client only after a block that returned.
ReleaseClientOnReturn(contexts, c, res) ==
    IF res.kind = "raise" THEN contexts ELSE {x \in contexts : x.id # c}

\* __aexit__ of the client context: it runs however the block ended.
ReleaseClient(contexts, c, res) == {x \in contexts : x.id # c}

\* The block of `async with` ended in `inner`; the context is left and the
\* handler runs to its end, which is `res`.
Finish(r, inner, res) ==
    /\ open' = ReleaseClient(open, client[r], inner)
    /\ client' = [client EXCEPT ![r] = 0]
    /\ resp' = [resp EXCEPT ![r] = Respond(res)]
    /\ pc' = [pc EXCEPT ![r] = "done"]
    /\ UNCHANGED <<req, nextClient, sent, reply>>

FinishStatus(r) ==
    /\ pc[r] = "exiting"
    /\ Operation(req[r]) = "status"
    /\ Finish(r, CheckStatusBody(reply[r]), CheckStatus(reply[r]))

FinishCreate(r) ==
    /\ pc[r] = "exiting"
    /\ Operation(req[r]) = "create"
    /\ Finish(r, MakeApolloRequest("POST", reply[r]), CreateContact(reply[r]))

FinishUpdate(r) ==
    /\ pc[r] = "exiting"
    /\ Operation(req[r]) = "update"
    /\ Finish(r, MakeApolloRequest("PUT", reply[r]),
              UpdateContact(UpdateContactRequest(req[r].params), reply[r]))

Step(r, Inputs, Outcomes) ==
    \/ \E in \in Inputs : Arrive(r, in)
    \/ StartStatus(r)
    \/ StartCreate(r)
    \/ StartUpdate(r)
    \/ WebhookUnknown(r)
    \/ \E o \in Outcomes : Reply(r, o)
    \/ FinishStatus(r)
    \/ FinishCreate(r)
    \/ FinishUpdate(r)

\* Concurrent requests, one or two per code path.
Next == \E r \in Req : Step(r, CoreInputs, CoreOutcomes)

Spec == Init /\ [][Next]_vars

\* One request, drawn from every input and every remote outcome.
NextFull == Step(1, AllInputs, AllOutcomes)

SpecFull == Init /\ [][NextFull]_vars

(***************************************************************************)
(* Properties.  The requests are read as the caller sent them: the         *)
(* predicates below look at the raw input, not at what the handlers made   *)
(* of it.                                                                  *)
(***************************************************************************)
IsCreate(in) ==
    in.endpoint = "create" \/ (in.endpoint = "webhook" /\ in.action = "create_contact")

IsUpdate(in) ==
    in.endpoint = "update" \/ (in.endpoint = "webhook" /\ in.action = "update_contact")

IsStatus(in) ==
    in.endpoint = "status" \/ (in.endpoint = "webhook" /\ in.action = "status")

IsUnknown(in) ==
    in.endpoint = "webhook" /\ in.action \notin {"create_contact", "update_contact", "status"}

Absent(v) == v \in {Missing, Null, ""}

NoOptionalField(p) ==
    Absent(p.email) /\ Absent(p.title) /\ Absent(p.phone) /\ Absent(p.linkedin_url)

Lacks(v) == v \in {Missing, Null}

Called(r) == sent[r] # <<>>

\* C1: an update request (with its contact_id) whose email, title, phone and
\* linkedin_url are all absent or empty is answered with status 400, not with
\* a 500, and no outbound call is made for it at any time.
C1_UpdateWithoutFields ==
    \A r \in Req :
        (IsUpdate(req[r]) /\ NoOptionalField(req[r].params)) =>
            /\ ~Called(r)
            /\ (pc[r] = "done" /\ ~Lacks(req[r].params.contact_id)) =>
                    (resp[r].kind = "failure" /\ resp[r].status = 400)

C1_Witness ==
    \E r \in Req :
        /\ pc[r] = "done" /\ IsUpdate(req[r])
        /\ req[r].params.contact_id = "c1" /\ req[r].params.email = ""
        /\ NoOptionalField(req[r].params)
        /\ resp[r].status = 400 /\ ~Called(r)

\* C2: a create request whose email is the empty string is rejected before
\* any outbound call: no call is ever issued for it.
C2_EmptyEmailRejected ==
    \A r \in Req :
        (IsCreate(req[r]) /\ req[r].params.email = "") => ~Called(r)

\* C3: for create and update, a remote answer with a non-2xx status s reaches
\* the caller as a failure with exactly status s whose message holds the
\* remote body; any other failure of the call (transport exception, timeout,
\* body that is not JSON) reaches the caller as a 500 with the exception's
\* description.
C3_FailurePropagation ==
    \A r \in Req :
        (pc[r] = "done" /\ (IsCreate(req[r]) \/ IsUpdate(req[r])) /\ Called(r)) =>
            /\ (reply[r].kind = "response" /\ ~(reply[r].status \in 200..299)) =>
                    /\ resp[r].kind = "failure"
                    /\ resp[r].status = reply[r].status
                    /\ resp[r].detail = "Apollo API error: " \o reply[r].body.text
            /\ reply[r].kind = "exception" =>
                    /\ resp[r].kind = "failure"
                    /\ resp[r].status = 500
                    /\ resp[r].detail = reply[r].desc
            /\ (reply[r].kind = "response" /\ reply[r].status \in 200..299
                    /\ reply[r].body.kind = "invalid") =>
                    /\ resp[r].kind = "failure"
                    /\ resp[r].status = 500
                    /\ resp[r].detail = "Expecting value: line 1 column 1 (char 0)"

C3_Witness ==
    \E r \in Req :
        /\ pc[r] = "done" /\ IsCreate(req[r]) /\ Called(r)
        /\ reply[r].kind = "response" /\ reply[r].status = 422
        /\ resp[r].kind = "failure" /\ resp[r].status = 422
        /\ resp[r].detail = "Apollo API error: {\"error\": \"invalid email\"}"

Field(name, v) == IF Absent(v) THEN <<>> ELSE <<name>>

\* C4 as stated: a successful update lists in updated_fields the optional
\* fields the request carried, under the request's names (phone as "phone").
C4_RequestNames ==
    \A r \in Req :
        (pc[r] = "done" /\ IsUpdate(req[r]) /\ resp[r].kind = "payload") =>
            resp[r].payload.updated_fields =
                Field("email", req[r].params.email) \o Field("title", req[r].params.title)
                \o Field("phone", req[r].params.phone)
                \o Field("linkedin_url", req[r].params.linkedin_url)

\* C4 amended: a successful update lists in updated_fields the keys of the
\* outbound body: the non-empty optional fields in the order email, title,
\* phone, linkedin_url, with phone under its outbound name direct_phone.
C4_OutboundNames ==
    \A r \in Req :
        (pc[r] = "done" /\ IsUpdate(req[r]) /\ resp[r].kind = "payload") =>
            /\ resp[r].payload.success
            /\ resp[r].payload.updated_fields =
                Field("email", req[r].params.email) \o Field("title", req[r].params.title)
                \o Field("direct_phone", req[r].params.phone)
                \o Field("linkedin_url", req[r].params.linkedin_url)
            /\ resp[r].payload.updated_fields =
                [i \in 1..Len(sent[r][1].body) |-> sent[r][1].body[i][1]]

C4_Witness ==
    \E r \in Req :
        /\ pc[r] = "done" /\ IsUpdate(req[r]) /\ resp[r].kind = "payload"
        /\ ~Absent(req[r].params.phone) /\ Absent(req[r].params.email)
        /\ Absent(req[r].params.title) /\ Absent(req[r].params.linkedin_url)
        /\ resp[r].payload.updated_fields = <<"direct_phone">>

\* The contact of a remote payload, {} when it is missing or null.
RemoteContact(body) == IF body.contact.kind = "object" THEN body.contact ELSE EmptyContact

CompanyByClaim(c) ==
    IF ~Absent(c.organization_name) THEN c.organization_name
    ELSE IF c.account = "object" /\ ~Lacks(c.account_name) THEN c.account_name
    ELSE Null

\* C5: every 2xx remote response (carrying a JSON object) to the call of a
\* create request with an email
\* yields a success payload whose contact_id, name, email and title are the
\* remote contact's (null when missing) and whose company is the contact's
\* organization name when present and non-empty, else the name under its
\* account, else null; also when the contact or its account is missing or null.
C5_CreateSuccessPayload ==
    \A r \in Req :
        (pc[r] = "done" /\ IsCreate(req[r]) /\ ~Absent(req[r].params.email) /\ Called(r)
            /\ reply[r].kind = "response" /\ reply[r].status \in 200..299
            /\ reply[r].body.kind = "object") =>
            LET c == RemoteContact(reply[r].body) IN
            /\ resp[r].kind = "payload"
            /\ resp[r].payload.success
            /\ resp[r].payload.contact_id = Get(c.id)
            /\ resp[r].payload.name = Get(c.name)
            /\ resp[r].payload.email = Get(c.email)
            /\ resp[r].payload.title = Get(c.title)
            /\ resp[r].payload.company = CompanyByClaim(c)

ObjectBody(o) == o.kind = "response" /\ o.body.kind = "object"

\* C6 as stated: the status check always ends in a normal payload, with
\* apollo_status "connected" exactly for a remote 200 (with a readable body;
\* then carrying is_logged_in, false if missing) and "error" otherwise, and
\* the payload carries the remote status_code whenever a response was received.
C6_StatusCodeWheneverReceived ==
    \A r \in Req :
        (pc[r] = "done" /\ IsStatus(req[r])) =>
            /\ resp[r].kind = "payload"
            /\ resp[r].payload.apollo_status =
                    IF reply[r].status = 200 /\ ObjectBody(reply[r])
                    THEN "connected" ELSE "error"
            /\ reply[r].kind = "response" =>
                    /\ "status_code" \in resp[r].payload.keys
                    /\ resp[r].payload.status_code = reply[r].status

\* C6 amended: the status check always ends in a normal payload; it is
\* "connected" exactly for a remote 200 whose body is a JSON object (then
\* carrying is_logged_in, false if missing) and "error" otherwise; the
\* payload carries the remote status_code when a response was received,
\* except for a 200 whose body is not a JSON object: that one, like a
\* transport exception, gives only {apollo_status: "error", error: text}.
C6_StatusNeverFails ==
    \A r \in Req :
        (pc[r] = "done" /\ IsStatus(req[r])) =>
            LET p == resp[r].payload
                unreadable == reply[r].kind = "response" /\ reply[r].status = 200
                                /\ reply[r].body.kind # "object"
            IN
            /\ resp[r].kind = "payload" /\ resp[r].status = 200
            /\ p.apollo_status =
                    IF reply[r].status = 200 /\ ObjectBody(reply[r])
                    THEN "connected" ELSE "error"
            /\ p.apollo_status = "connected" =>
                    p.is_logged_in = GetDefault(reply[r].body.is_logged_in, "false")
            /\ (reply[r].kind = "response" /\ ~unreadable) =>
                    /\ p.keys = {"apollo_status", "status_code", "is_logged_in"}
                    /\ p.status_code = reply[r].status
            /\ (reply[r].kind = "exception" \/ unreadable) =>
                    /\ p.keys = {"apollo_status", "error"}
                    /\ p.error # Missing

C6_Witness ==
    \E r \in Req :
        /\ pc[r] = "done" /\ IsStatus(req[r])
        /\ reply[r].kind = "response" /\ reply[r].status = 200
        /\ reply[r].body.kind = "invalid"
        /\ resp[r].kind = "payload"
        /\ resp[r].payload.apollo_status = "error"
        /\ "status_code" \notin resp[r].payload.keys

\* C7: a create request without email, or an update request without
\* contact_id, sent to its endpoint or through the webhook, is answered with
\* status 400 and no outbound call is made for it.
C7_MissingRequired400 ==
    \A r \in Req :
        (pc[r] = "done"
            /\ \/ (IsCreate(req[r]) /\ Lacks(req[r].params.email))
               \/ (IsUpdate(req[r]) /\ Lacks(req[r].params.contact_id))) =>
            /\ resp[r].kind = "failure"
            /\ resp[r].status = 400
            /\ ~Called(r)

\* C8: a webhook request whose action is missing or unrecognised gets the
\* normal payload {error: "Unknown action", available: [create_contact,
\* update_contact, status]} whatever its params and makes no outbound call;
\* a webhook request with action status gets the payload the status endpoint
\* gives for the same remote outcome.
C8_WebhookDispatch ==
    /\ \A r \in Req :
        (IsUnknown(req[r])) =>
            /\ ~Called(r)
            /\ pc[r] = "done" =>
                /\ resp[r].kind = "payload" /\ resp[r].status = 200
                /\ resp[r].payload.keys = {"error", "available"}
                /\ resp[r].payload.error = "Unknown action"
                /\ resp[r].payload.available =
                        <<"create_contact", "update_contact", "status">>
    /\ \A r1, r2 \in Req :
        (pc[r1] = "done" /\ pc[r2] = "done"
            /\ req[r1].endpoint = "status"
            /\ req[r2].endpoint = "webhook" /\ req[r2].action = "status"
            /\ reply[r1] = reply[r2]) => resp[r1] = resp[r2]

C8_Witness ==
    \E r1, r2 \in Req :
        /\ pc[r1] = "done" /\ IsUnknown(req[r1]) /\ req[r1].params # NoParams
        /\ resp[r1].payload.error = "Unknown action" /\ ~Called(r1)
        /\ pc[r2] = "done" /\ req[r2].endpoint = "webhook" /\ req[r2].action = "status"
        /\ resp[r2].payload.apollo_status = "connected"

\* An operation that passed validation.
PassedValidation(in) ==
    \/ IsStatus(in)
    \/ IsCreate(in) /\ ~Lacks(in.params.email)
    \/ IsUpdate(in) /\ ~Lacks(in.params.contact_id) /\ ~NoOptionalField(in.params)

Handled(r) == pc[r] \in {"awaiting", "exiting", "done"}

\* C9: the outbound calls issued are one per status, create or update
\* operation handled that passed validation, whatever its outcome, and none
\* for any other request: no call is repeated and no request is answered
\* without a call of its own, however the requests interleave.
C9_OneCallPerOperation ==
    /\ \A r \in Req :
        Len(sent[r]) = IF Handled(r) /\ PassedValidation(req[r]) THEN 1 ELSE 0
    /\ nextClient - 1 = Cardinality({r \in Req : Handled(r) /\ PassedValidation(req[r])})

C9_Witness ==
    \E r1, r2 \in Req :
        /\ r1 # r2 /\ pc[r1] = "done" /\ pc[r2] = "done"
        /\ IsUpdate(req[r1]) /\ req[r1] = req[r2]
        /\ Len(sent[r1]) = 1 /\ sent[r1] = sent[r2]
        /\ resp[r1].kind = "payload" /\ resp[r2].kind = "failure"

\* C10: every outbound call has a client context of its own, open while the
\* call is in flight and shared with no other request; once a request has
\* completed, with a payload or a failure, no context acquired for it is open.
C10_ClientScoped ==
    /\ \A r \in Req :
        IF pc[r] \in {"awaiting", "exiting"}
        THEN /\ client[r] # 0
             /\ {x \in open : x.req = r} = {[id |-> client[r], req |-> r]}
        ELSE /\ client[r] = 0
             /\ {x \in open : x.req = r} = {}
    /\ \A x, y \in open : x.id = y.id => x = y

C10_Witness ==
    \E r1, r2 \in Req :
        /\ pc[r1] = "done" /\ Called(r1) /\ reply[r1].kind = "exception"
        /\ resp[r1].kind = "failure"
        /\ pc[r2] = "awaiting"
        /\ open = {[id |-> client[r2], req |-> r2]}
====
